---------------------------- MODULE Spec2Model ----------------------------
(***************************************************************************)
(* Model of growin_core (src/backend/growin_core_src/src/lib.rs): the      *)
(* ticker normaliser and the technical-indicator functions.                 *)
(*                                                                         *)
(* Every function of the library is pure; a behaviour of the model is one  *)
(* call: Init draws the call (function and arguments) from bounded sets    *)
(* and the action of that function computes its outcome.                   *)
(*                                                                         *)
(* Strings are TLA+ strings, read character by character with SubSeq.      *)
(*                                                                         *)
(* f64 is modelled as binary floating point with round-to-nearest, ties-   *)
(* to-even, exactly as IEEE 754 defines it, but with a significand of      *)
(* MantissaBits bits instead of 53 and a smallest positive value of        *)
(* 2^-FracBits instead of 2^-1074.  A finite value is the integer number   *)
(* of these smallest units it holds.  Infinities and NaN are kept; the     *)
(* sign of zero and overflow to infinity (out of reach of the bounded      *)
(* inputs) are not.                                                        *)
(***************************************************************************)
EXTENDS Integers, Sequences, FiniteSets, TLC

VARIABLES call, ret

vars == <<call, ret>>

(***************************************************************************)
(* Bounds of the model.                                                    *)
(***************************************************************************)
MantissaBits == 8
FracBits == 6
MaxLen == 4
MaxPeriod == 3
MaxBodyLen == 4

(***************************************************************************)
(* f64                                                                     *)
(***************************************************************************)
Unit == 2 ^ FracBits
MantissaLimit == 2 ^ MantissaBits

Fin(n) == [k |-> "fin", n |-> n]
NaN == [k |-> "nan", n |-> 0]
Inf(s) == [k |-> "inf", n |-> s]

Sign(n) == IF n < 0 THEN -1 ELSE 1
Abs(n) == IF n < 0 THEN -n ELSE n

\* a / b rounded to the nearest integer, ties to the even one (a >= 0, b > 0)
RoundHalfEven(a, b) ==
    LET fl == a \div b
        rem == a % b
    IN  IF 2 * rem < b THEN fl
        ELSE IF 2 * rem > b THEN fl + 1
        ELSE IF fl % 2 = 0 THEN fl ELSE fl + 1

\* the representable magnitude nearest to a / b (a >= 0, b > 0)
RECURSIVE RoundMag(_, _)
RoundMag(a, b) ==
    IF a \div b < MantissaLimit THEN RoundHalfEven(a, b)
    ELSE 2 * RoundMag(a, 2 * b)

\* the representable value nearest to num / den (den # 0)
RoundQ(num, den) == Sign(num) * Sign(den) * RoundMag(Abs(num), Abs(den))

\* usize as f64
FromInt(i) == Fin(RoundQ(i * Unit, 1))

Zero == Fin(0)
One == FromInt(1)
Two == FromInt(2)
Fifty == FromInt(50)
Hundred == FromInt(100)

FNeg(a) == [a EXCEPT !.n = -a.n]

FAbs(a) == [a EXCEPT !.n = Abs(a.n)]

FAdd(a, b) ==
    IF a.k = "nan" \/ b.k = "nan" THEN NaN
    ELSE IF a.k = "inf" THEN (IF b.k = "inf" /\ b.n # a.n THEN NaN ELSE a)
    ELSE IF b.k = "inf" THEN b
    ELSE Fin(RoundQ(a.n + b.n, 1))

FSub(a, b) == FAdd(a, FNeg(b))

FMul(a, b) ==
    IF a.k = "nan" \/ b.k = "nan" THEN NaN
    ELSE IF a.k = "inf" \/ b.k = "inf"
         THEN (IF a.n = 0 \/ b.n = 0 THEN NaN ELSE Inf(Sign(a.n) * Sign(b.n)))
    ELSE Fin(RoundQ(a.n * b.n, Unit))

FDiv(a, b) ==
    IF a.k = "nan" \/ b.k = "nan" THEN NaN
    ELSE IF a.k = "inf"
         THEN (IF b.k = "inf" THEN NaN ELSE Inf(Sign(a.n) * Sign(b.n)))
    ELSE IF b.k = "inf" THEN Zero
    ELSE IF b.n = 0 THEN (IF a.n = 0 THEN NaN ELSE Inf(Sign(a.n)))
    ELSE Fin(RoundQ(a.n * Unit, b.n))

\* floor of the square root of m >= 0
RECURSIVE ISqrt(_)
ISqrt(m) ==
    IF m < 2 THEN m
    ELSE LET s == 2 * ISqrt(m \div 4)
         IN  IF (s + 1) * (s + 1) <= m THEN s + 1 ELSE s

\* the largest representable magnitude <= n, and the gap to the next one
RECURSIVE TruncMag(_)
TruncMag(n) == IF n < MantissaLimit THEN n ELSE 2 * TruncMag(n \div 2)

RECURSIVE Ulp(_)
Ulp(n) == IF n < MantissaLimit THEN 1 ELSE 2 * Ulp(n \div 2)

\* the representable magnitude nearest to the square root of m >= 0
RoundSqrt(m) ==
    LET lo == TruncMag(ISqrt(m))
        hi == lo + Ulp(lo)
    IN  IF lo * lo = m THEN lo
        ELSE IF 4 * m < (lo + hi) * (lo + hi) THEN lo
        ELSE IF 4 * m > (lo + hi) * (lo + hi) THEN hi
        ELSE IF (lo \div Ulp(lo)) % 2 = 0 THEN lo ELSE hi

FSqrt(a) ==
    IF a.k = "nan" THEN NaN
    ELSE IF a.n < 0 THEN NaN
    ELSE IF a.k = "inf" THEN a
    ELSE Fin(RoundSqrt(a.n * Unit))

\* a > 0.0 and a == 0.0
FPositive(a) == a.k # "nan" /\ a.n > 0
FIsZero(a) == a.k = "fin" /\ a.n = 0

(***************************************************************************)
(* Outcomes of a call.  A PyResult that is Ok carries the value; no        *)
(* function of the library ever builds a PyErr.  An arithmetic overflow    *)
(* on usize panics where overflow checks are compiled in (the debug        *)
(* profile) and wraps where they are not (the release profile); a vector   *)
(* asked to grow to usize::MAX elements aborts on allocation.              *)
(***************************************************************************)
Profiles == {"debug", "release"}

Ok(v) == [kind |-> "Ok", value |-> v]
Panic == [kind |-> "Panic", value |-> <<>>]
Abort == [kind |-> "Abort", value |-> <<>>]

\* vec![x; n]
Repeat(x, n) == [i \in 1..n |-> x]

\* slice.iter().sum(): a left fold of + over the slice data[lo..=hi] (1-based)
RECURSIVE SumRange(_, _, _)
SumRange(data, lo, hi) ==
    IF hi < lo THEN Zero ELSE FAdd(SumRange(data, lo, hi - 1), data[hi])

(***************************************************************************)
(* calculate_sma                                                           *)
(***************************************************************************)
\* one iteration of the loop at 0-based index i, with the running sum
RECURSIVE SmaLoop(_, _, _, _, _)
SmaLoop(data, period, i, sum, sma) ==
    IF i >= Len(data) THEN sma
    ELSE LET added == FAdd(sum, data[i + 1])
         IN  IF i >= period
             THEN LET slid == FSub(added, data[i - period + 1])
                  IN  SmaLoop(data, period, i + 1, slid,
                              Append(sma, FDiv(slid, FromInt(period))))
             ELSE IF i = period - 1
             THEN SmaLoop(data, period, i + 1, added,
                          Append(sma, FDiv(added, FromInt(period))))
             ELSE SmaLoop(data, period, i + 1, added, Append(sma, Zero))

calculate_sma(data, period) == Ok(SmaLoop(data, period, 0, Zero, <<>>))

(***************************************************************************)
(* calculate_ema                                                           *)
(***************************************************************************)
\* k = 2.0 / (period as f64 + 1.0)
Smoothing(period) == FDiv(Two, FAdd(FromInt(period), One))

\* the recurrence from 0-based index i on, current_ema being the last value
RECURSIVE EmaLoop(_, _, _, _, _)
EmaLoop(data, k, i, current_ema, ema) ==
    IF i >= Len(data) THEN ema
    ELSE LET next == FAdd(FMul(data[i + 1], k), FMul(current_ema, FSub(One, k)))
         IN  EmaLoop(data, k, i + 1, next, Append(ema, next))

ema_start_idx(data, period) == IF Len(data) >= period THEN period - 1 ELSE 0

calculate_ema(data, period, profile) ==
    IF data = <<>> THEN Ok(<<>>)
    ELSE IF Len(data) >= period /\ period = 0
    THEN \* period - 1 overflows; wrapped, 0..start_idx pushes without end
         (IF profile = "debug" THEN Panic ELSE Abort)
    ELSE \* start_idx < data.len() here, so the seed is always the mean
         LET start_idx == ema_start_idx(data, period)
             k == Smoothing(period)
             seed == FDiv(SumRange(data, 1, start_idx + 1), FromInt(start_idx + 1))
         IN  Ok(EmaLoop(data, k, start_idx + 1, seed,
                        Append(Repeat(Zero, start_idx), seed)))

(***************************************************************************)
(* calculate_rsi                                                           *)
(***************************************************************************)
Diffs(prices) ==
    <<Zero>> \o [i \in 1..(Len(prices) - 1) |-> FSub(prices[i + 1], prices[i])]

rsi_warmup_end(diffs, period) ==
    IF Len(diffs) > period THEN period ELSE Len(diffs) - 1

\* the sums of the gains and of the losses over diffs[1..=hi] (0-based)
RECURSIVE WarmupSums(_, _)
WarmupSums(diffs, hi) ==
    IF hi < 1 THEN [gain |-> Zero, loss |-> Zero]
    ELSE LET acc == WarmupSums(diffs, hi - 1)
             change == diffs[hi + 1]
         IN  IF FPositive(change)
             THEN [acc EXCEPT !.gain = FAdd(acc.gain, change)]
             ELSE [acc EXCEPT !.loss = FAdd(acc.loss, FAbs(change))]

\* rs and rsi from the smoothed averages
rsi_rs(avg_gain, avg_loss) ==
    IF FIsZero(avg_loss) THEN Hundred ELSE FDiv(avg_gain, avg_loss)

rsi_value(avg_gain, avg_loss) ==
    FSub(Hundred, FDiv(Hundred, FAdd(One, rsi_rs(avg_gain, avg_loss))))

\* the loop over 0-based i in period..len: one record per index, holding the
\* smoothed averages used at that index and the value pushed
RECURSIVE RsiLoop(_, _, _, _, _, _)
RsiLoop(diffs, period, n, i, avg, out) ==
    IF i >= n THEN out
    ELSE LET change == diffs[i + 1]
             gain == IF FPositive(change) THEN change ELSE Zero
             loss == IF FPositive(change) THEN Zero ELSE FAbs(change)
             p == FromInt(period)
             now == IF i = period THEN avg
                    ELSE [gain |-> FDiv(FAdd(FMul(avg.gain, FSub(p, One)), gain), p),
                          loss |-> FDiv(FAdd(FMul(avg.loss, FSub(p, One)), loss), p)]
         IN  RsiLoop(diffs, period, n, i + 1, now,
                     Append(out, [avg_gain |-> now.gain, avg_loss |-> now.loss,
                                  rsi |-> rsi_value(now.gain, now.loss)]))

\* the records of the indices period..len-1 (prices.len() >= period)
RsiSteps(prices, period) ==
    LET diffs == Diffs(prices)
        warmup_end == rsi_warmup_end(diffs, period)
        sums == WarmupSums(diffs, warmup_end)
        denominator == IF warmup_end > 0 THEN FromInt(warmup_end) ELSE One
        avg == [gain |-> FDiv(sums.gain, denominator),
                loss |-> FDiv(sums.loss, denominator)]
    IN  RsiLoop(diffs, period, Len(prices), period, avg, <<>>)

calculate_rsi(prices, period) ==
    IF Len(prices) < period THEN Ok(Repeat(Fifty, Len(prices)))
    ELSE LET steps == RsiSteps(prices, period)
         IN  Ok(Repeat(Fifty, period) \o [j \in 1..Len(steps) |-> steps[j].rsi])

(***************************************************************************)
(* calculate_macd                                                          *)
(***************************************************************************)
\* the closure get_ema
get_ema(d, p, profile) ==
    IF p = 0
    THEN \* p - 1 overflows; wrapped, 0..(p-1) pushes without end
         (IF profile = "debug" THEN Panic ELSE Abort)
    ELSE IF Len(d) >= p
    THEN LET k == Smoothing(p)
             curr == FDiv(SumRange(d, 1, p), FromInt(p))
         IN  Ok(EmaLoop(d, k, p, curr, Append(Repeat(Zero, p - 1), curr)))
    ELSE Ok(Repeat(Zero, p - 1))

calculate_macd(data, fast, slow, signal, profile) ==
    LET ema_fast == get_ema(data, fast, profile)
        ema_slow == get_ema(data, slow, profile)
    IN  IF ema_fast.kind # "Ok" THEN ema_fast
        ELSE IF ema_slow.kind # "Ok" THEN ema_slow
        ELSE LET macd_line == [i \in 1..Len(data) |->
                                  FSub(ema_fast.value[i], ema_slow.value[i])]
                 signal_line == get_ema(macd_line, signal, profile)
             IN  IF signal_line.kind # "Ok" THEN signal_line
                 ELSE Ok(<<macd_line, signal_line.value,
                           [i \in 1..Len(data) |->
                               FSub(macd_line[i], signal_line.value[i])]>>)

(***************************************************************************)
(* calculate_bbands                                                        *)
(***************************************************************************)
\* the sum of (x - mean)^2 over the window data[lo..=hi] (1-based)
RECURSIVE SquaredDeviations(_, _, _, _)
SquaredDeviations(data, lo, hi, mean) ==
    IF hi < lo THEN Zero
    ELSE LET dev == FSub(data[hi], mean)
         IN  FAdd(SquaredDeviations(data, lo, hi - 1, mean), FMul(dev, dev))

\* the bands at 0-based index i >= period - 1
bbands_at(data, period, std_dev, i) ==
    LET start_idx == (i + 1) - period
        mean == FDiv(SumRange(data, start_idx + 1, i + 1), FromInt(period))
        variance == FDiv(SquaredDeviations(data, start_idx + 1, i + 1, mean),
                         FromInt(period))
        std == FSqrt(variance)
    IN  [upper |-> FAdd(mean, FMul(std_dev, std)),
         middle |-> mean,
         lower |-> FSub(mean, FMul(std_dev, std))]

calculate_bbands(data, period, std_dev, profile) ==
    IF data = <<>> THEN Ok(<<<<>>, <<>>, <<>>>>)
    ELSE IF period = 0 /\ profile = "debug"
    THEN Panic  \* period - 1 overflows
    ELSE LET padded(i) == IF period = 0 THEN TRUE ELSE i < period - 1
             rows == [j \in 1..Len(data) |->
                         IF padded(j - 1)
                         THEN [upper |-> Zero, middle |-> Zero, lower |-> Zero]
                         ELSE bbands_at(data, period, std_dev, j - 1)]
         IN  Ok(<<[j \in 1..Len(data) |-> rows[j].upper],
                  [j \in 1..Len(data) |-> rows[j].middle],
                  [j \in 1..Len(data) |-> rows[j].lower]>>)


(***************************************************************************)
(* normalize_ticker                                                        *)
(***************************************************************************)
Char(s, i) == SubSeq(s, i, i)

DropLast(s, n) == SubSeq(s, 1, Len(s) - n)

EndsWith(s, t) == Len(s) >= Len(t) /\ SubSeq(s, Len(s) - Len(t) + 1, Len(s)) = t

StartsWith(s, t) == Len(s) >= Len(t) /\ SubSeq(s, 1, Len(t)) = t

Contains(s, t) == \E i \in 1..(Len(s) - Len(t) + 1) : SubSeq(s, i, i + Len(t) - 1) = t

LowerLetters == "abcdefghijklmnopqrstuvwxyz"
UpperLetters == "ABCDEFGHIJKLMNOPQRSTUVWXYZ"

\* the character c of `from` replaced by the one at its place in `to`
MapChar(c, from, to) ==
    IF \E i \in 1..Len(from) : Char(from, i) = c
    THEN Char(to, CHOOSE i \in 1..Len(from) : Char(from, i) = c)
    ELSE c

RECURSIVE MapString(_, _, _)
MapString(s, from, to) ==
    IF s = "" THEN ""
    ELSE MapString(DropLast(s, 1), from, to) \o MapChar(Char(s, Len(s)), from, to)

to_uppercase(s) == MapString(s, LowerLetters, UpperLetters)

Whitespace == {" ", "\t"}

RECURSIVE TrimStart(_)
TrimStart(s) ==
    IF s # "" /\ Char(s, 1) \in Whitespace THEN TrimStart(SubSeq(s, 2, Len(s))) ELSE s

RECURSIVE TrimEnd(_)
TrimEnd(s) ==
    IF s # "" /\ Char(s, Len(s)) \in Whitespace THEN TrimEnd(DropLast(s, 1)) ELSE s

trim(s) == TrimEnd(TrimStart(s))

\* s.replace(c, "") for a single character c
RECURSIVE Remove(_, _)
Remove(s, c) ==
    IF s = "" THEN ""
    ELSE Remove(DropLast(s, 1), c) \o (IF Char(s, Len(s)) = c THEN "" ELSE Char(s, Len(s)))

suffixes == <<"_EQ", "_US", "_BE", "_DE", "_GB", "_FR", "_NL", "_ES", "_IT">>

special_mappings ==
    <<
      <<"SSLNL", "SSLN">>, <<"SGLNL", "SGLN">>, <<"3GLD", "3GLD">>,
      <<"SGLN", "SGLN">>, <<"PHGP", "PHGP">>, <<"PHAU", "PHAU">>,
      <<"3LTS", "3LTS">>, <<"3USL", "3USL">>, <<"LLOY1", "LLOY">>,
      <<"VOD1", "VOD">>, <<"BARC1", "BARC">>, <<"TSCO1", "TSCO">>,
      <<"BPL1", "BP">>, <<"BPL", "BP">>, <<"AZNL1", "AZN">>,
      <<"AZNL", "AZN">>, <<"SGLN1", "SGLN">>, <<"MAG5", "MAG5">>,
      <<"MAG5L", "MAG5">>, <<"MAG7", "MAG7">>, <<"MAG7L", "MAG7">>,
      <<"GLD3", "GLD3">>, <<"3UKL", "3UKL">>, <<"5QQQ", "5QQQ">>,
      <<"TSL3", "TSL3">>, <<"NVD3", "NVD3">>, <<"AVL", "AV">>,
      <<"UUL", "UU">>, <<"BAL", "BA">>, <<"SLL", "SL">>, <<"AU", "AUT">>,
      <<"RBL", "RKT">>, <<"MICCL", "MICC">>
    >>

stems == {"LLOY", "BARC", "VOD", "HSBA", "TSCO", "BP", "AZN", "RR", "NG", "SGLN", "SSLN"}

us_exclusions ==
    {
      "AAPL", "MSFT", "GOOG", "AMZN", "NVDA", "TSLA", "META", "NFLX",
      "AMD", "INTC", "PYPL", "ADBE", "CSCO", "PEP", "COST", "AVGO",
      "QCOM", "TXN", "ORCL", "CRM", "IBM", "UBER", "ABNB", "SNOW",
      "PLTR", "SQ", "SHOP", "SPOT", "GOOGL", "JPM", "BAC", "WFC", "C",
      "GS", "MS", "BLK", "AXP", "V", "MA", "COF", "USB", "CAT", "DE",
      "GE", "GM", "F", "BA", "LMT", "RTX", "HON", "UPS", "FDX", "UNP",
      "MMM", "WMT", "TGT", "HD", "LOW", "MCD", "SBUX", "NKE", "KO", "PG",
      "CL", "MO", "PM", "DIS", "CMCSA", "JNJ", "PFE", "MRK", "ABBV",
      "LLY", "UNH", "CVS", "AMGN", "GILD", "BMY", "ISRG", "TMO", "ABT",
      "DHR", "XOM", "CVX", "COP", "SLB", "EOG", "OXY", "KMI", "HAL", "T",
      "VZ", "TMUS", "SPY", "QQQ", "DIA", "IWM", "IVV", "VOO", "VTI",
      "GLD", "SLV", "ARKK", "SMH", "XLF", "XLE", "XLK", "XLV", "Z", "O",
      "D", "R", "K", "X", "S", "M", "A", "G"
    }

\* 1. Basic Cleaning
Clean(ticker) == Remove(trim(to_uppercase(ticker)), "$")

\* one pass of the for loop over suffixes, from the j-th suffix on
RECURSIVE StripPass(_, _)
StripPass(normalized, j) ==
    IF j > Len(suffixes) THEN normalized
    ELSE StripPass(IF EndsWith(normalized, suffixes[j])
                   THEN DropLast(normalized, Len(suffixes[j]))
                   ELSE normalized, j + 1)

\* the loop: passes until one changes nothing
RECURSIVE StripSuffixes(_)
StripSuffixes(normalized) ==
    LET stripped == StripPass(normalized, 1)
    IN  IF stripped = normalized THEN normalized ELSE StripSuffixes(stripped)

\* 4. SPECIAL MAPPINGS: the first key equal to the symbol
ApplySpecialMappings(normalized) ==
    IF \E j \in 1..Len(special_mappings) : special_mappings[j][1] = normalized
    THEN LET first == CHOOSE j \in 1..Len(special_mappings) :
                         /\ special_mappings[j][1] = normalized
                         /\ \A h \in 1..(j - 1) : special_mappings[h][1] # normalized
         IN  special_mappings[first][2]
    ELSE normalized

\* 5. Suffix Protection for Leveraged Products
ProtectStem(normalized) ==
    IF EndsWith(normalized, "1") /\ Len(normalized) > 3 /\ DropLast(normalized, 1) \in stems
    THEN DropLast(normalized, 1)
    ELSE normalized

\* steps 3 to 5: the symbol that reaches 6. Global Exchange Logic
StripArtifacts(cleaned) ==
    ProtectStem(ApplySpecialMappings(Remove(StripSuffixes(cleaned), "_")))

is_explicit_uk(original) == Contains(original, "_EQ") /\ ~Contains(original, "_US")

is_likely_uk(normalized) ==
    (Len(normalized) <= 5 \/ EndsWith(normalized, "L")) /\ normalized \notin us_exclusions

\* the drop with its length test off by one (longer than 4 instead of 3)
DropTrailingL_LengthOffByOne(normalized) ==
    IF /\ is_likely_uk(normalized)
       /\ EndsWith(normalized, "L")
       /\ Len(normalized) > 4
       /\ normalized \notin us_exclusions
    THEN DropLast(normalized, 1)
    ELSE normalized

\* the if around normalized.pop()
DropTrailingL(normalized) ==
    IF /\ is_likely_uk(normalized)
       /\ EndsWith(normalized, "L")
       /\ Len(normalized) > 3
       /\ normalized \notin us_exclusions
    THEN DropLast(normalized, 1)
    ELSE normalized

is_leveraged(normalized) ==
    \/ StartsWith(normalized, "3") \/ StartsWith(normalized, "5") \/ StartsWith(normalized, "7")
    \/ EndsWith(normalized, "2") \/ EndsWith(normalized, "3")
    \/ EndsWith(normalized, "5") \/ EndsWith(normalized, "7")

\* 6. Global Exchange Logic, on the cleaned string and the symbol of step 5
Classify(original, normalized) ==
    LET likely == is_likely_uk(normalized)
        popped == DropTrailingL(normalized)
    IN  IF /\ is_explicit_uk(original) \/ likely \/ is_leveraged(popped)
           /\ ~EndsWith(popped, ".L")
           /\ ~Contains(popped, ".")
        THEN popped \o ".L"
        ELSE popped

normalize_ticker(ticker) ==
    IF ticker = "" THEN ""
    ELSE LET cleaned == Clean(ticker)
         IN  IF Contains(cleaned, ".") THEN cleaned
             ELSE Classify(cleaned, StripArtifacts(cleaned))

(***************************************************************************)
(* The calls.  A raw ticker is a symbol, written in upper or lower case,   *)
(* followed by a vendor tail and wrapped in whitespace and '$'.  A price   *)
(* series holds the smallest step, 1.0, 2.0 and the first value past which *)
(* not every step is representable.                                        *)
(***************************************************************************)
BodyAlphabet == {"A", "L", "3"}

\* the strings over BodyAlphabet of length <= n
RECURSIVE Words(_)
Words(n) ==
    IF n = 0 THEN {""}
    ELSE LET shorter == Words(n - 1)
         IN  shorter \cup {w \o c : w \in shorter, c \in BodyAlphabet}

ListedSymbols ==
    {special_mappings[j][1] : j \in 1..Len(special_mappings)}
    \cup {stem \o "1" : stem \in stems}
    \cup {"AAPL", "AAPLL", "GOOGL", "MSFT", "MSFTL", "BA", "C", "CL", "VOD", "VODL",
          "RR", "RR1", "ABCDE", "ABCDEF", "ABCDEFL", "TSLA2", "7UP", "QQQ5", "A.B"}

Bodies == Words(MaxBodyLen) \cup ListedSymbols

Tails == {"", "_EQ", "_US", "_US_EQ", ".L"}

Wrappings == {<<"", "">>, <<" ", "">>, <<"", " ">>, <<" ", " ">>, <<"$ ", "">>, <<"", " $">>}

to_lowercase(s) == MapString(s, UpperLetters, LowerLetters)

Tickers ==
    {w[1] \o t \o w[2] :
        w \in Wrappings,
        t \in {b \o tail : b \in Bodies, tail \in Tails}
              \cup {to_lowercase(b \o tail) : b \in Bodies, tail \in Tails}}

PriceValues == {Fin(1), One, Two, Fin(MantissaLimit)}

\* the sequences over PriceValues of length <= n
RECURSIVE Series(_)
Series(n) ==
    IF n = 0 THEN {<<>>}
    ELSE LET shorter == Series(n - 1)
         IN  shorter \cup {Append(d, x) : d \in shorter, x \in PriceValues}

Periods == 0..MaxPeriod

StdDevs == {One, Two}

Pending == [kind |-> "Pending", value |-> <<>>]

TickerCalls == {[fn |-> "normalize_ticker", ticker |-> t] : t \in Tickers}

\* the indicator calls on series of length <= n
IndicatorCalls(n) ==
    {[fn |-> f, data |-> d, period |-> p] :
        f \in {"calculate_rsi", "calculate_sma", "calculate_ema"},
        d \in Series(n), p \in Periods}
    \cup {[fn |-> "calculate_macd", data |-> d, fast |-> f, slow |-> s, signal |-> g] :
            d \in Series(n), f \in Periods, s \in Periods, g \in Periods}
    \cup {[fn |-> "calculate_bbands", data |-> d, period |-> p, std_dev |-> sd] :
            d \in Series(n), p \in Periods, sd \in StdDevs}

InitTicker == call \in TickerCalls /\ ret = Pending

InitIndicators == call \in IndicatorCalls(MaxLen) /\ ret = Pending

Init == InitTicker \/ InitIndicators

(***************************************************************************)
(* One action per exported function: the call returns.                     *)
(***************************************************************************)
Called(fn) == call.fn = fn /\ ret.kind = "Pending"

NormalizeTicker ==
    /\ Called("normalize_ticker")
    /\ ret' = Ok(normalize_ticker(call.ticker))
    /\ UNCHANGED call

CalculateRsi ==
    /\ Called("calculate_rsi")
    /\ ret' = calculate_rsi(call.data, call.period)
    /\ UNCHANGED call

CalculateSma ==
    /\ Called("calculate_sma")
    /\ ret' = calculate_sma(call.data, call.period)
    /\ UNCHANGED call

CalculateEma ==
    /\ Called("calculate_ema")
    /\ \E profile \in Profiles : ret' = calculate_ema(call.data, call.period, profile)
    /\ UNCHANGED call

CalculateMacd ==
    /\ Called("calculate_macd")
    /\ \E profile \in Profiles :
          ret' = calculate_macd(call.data, call.fast, call.slow, call.signal, profile)
    /\ UNCHANGED call

CalculateBbands ==
    /\ Called("calculate_bbands")
    /\ \E profile \in Profiles :
          ret' = calculate_bbands(call.data, call.period, call.std_dev, profile)
    /\ UNCHANGED call

NextTicker == NormalizeTicker

NextIndicators ==
    \/ CalculateRsi
    \/ CalculateSma
    \/ CalculateEma
    \/ CalculateMacd
    \/ CalculateBbands

Next == NextTicker \/ NextIndicators

Spec == Init /\ [][Next]_vars

SpecTicker == InitTicker /\ [][NextTicker]_vars

SpecIndicators == InitIndicators /\ [][NextIndicators]_vars

Returned(fn) == call.fn = fn /\ ret.kind # "Pending"

(***************************************************************************)
(* Claims                                                                  *)
(***************************************************************************)
IsIndicatorCall == call.fn # "normalize_ticker"

\* the periods of the call: one, or MACD's fast, slow and signal
CallPeriods ==
    IF call.fn = "calculate_macd" THEN {call.fast, call.slow, call.signal}
    ELSE {call.period}

\* the output sequences of an Ok outcome: one, or the three of MACD and Bollinger
Outputs(fn, outcome) ==
    IF fn \in {"calculate_macd", "calculate_bbands"}
    THEN {outcome.value[j] : j \in 1..3}
    ELSE {outcome.value}

\* C1: for every price sequence and every period >= 1, every output sequence of
\* calculate_sma, calculate_ema, calculate_rsi, calculate_macd (three) and
\* calculate_bbands (three) has exactly len(data) elements.
C1_OutputLengthIsInputLength ==
    (IsIndicatorCall /\ ret.kind # "Pending" /\ 0 \notin CallPeriods) =>
        /\ ret.kind = "Ok"
        /\ \A out \in Outputs(call.fn, ret) : Len(out) = Len(call.data)

\* C2: an indicator called with a period of 0 ends in an invalid-argument
\* failure: never a result sequence, never another kind of fault.
C2_ZeroPeriodIsInvalidArgument ==
    (IsIndicatorCall /\ ret.kind # "Pending" /\ 0 \in CallPeriods) =>
        ret.kind = "InvalidArgument"

\* the symbol normalization ends with, before any `.L` is appended
FinalSymbol(ticker) == DropTrailingL(StripArtifacts(Clean(ticker)))

\* the raw ticker goes through steps 3 to 6: not empty, no '.' once cleaned
ReachesClassification(ticker) == ticker # "" /\ ~Contains(Clean(ticker), ".")

\* C3: for a raw ticker without '.', if the symbol normalization ends with is a
\* member of US_EXCLUSIONS, the returned string is that symbol, without `.L`.
C3_UsExclusionNeverGetsLondonSuffix ==
    (Returned("normalize_ticker") /\ ReachesClassification(call.ticker)
        /\ FinalSymbol(call.ticker) \in us_exclusions) =>
        ret.value = FinalSymbol(call.ticker)

\* C4: normalize_ticker is idempotent on every input that contains a '.':
\* normalizing the returned string returns it unchanged.
C4_IdempotentOnDottedInput ==
    (Returned("normalize_ticker") /\ Contains(call.ticker, ".")) =>
        normalize_ticker(ret.value) = ret.value

\* x with its letter case changed, or leading and trailing whitespace added or removed
CaseAndSpaceVariants(x) ==
    {to_lowercase(x), to_uppercase(x), trim(x), " " \o x, x \o " ", " " \o x \o " "}

\* C5: normalize_ticker returns the same string for every input that differs
\* from x only in letter case and in surrounding whitespace (x may be empty).
C5_CaseAndWhitespaceInsensitive ==
    Returned("normalize_ticker") =>
        \A y \in CaseAndSpaceVariants(call.ticker) : normalize_ticker(y) = ret.value

\* C6: in calculate_rsi with len(prices) >= period >= 1, the value at an index
\* i >= period is exactly 100.0 when the smoothed avg_loss there is 0, and
\* 100 - 100/(1 + avg_gain/avg_loss) otherwise.
C6_RsiIsHundredWithoutLoss ==
    (Returned("calculate_rsi") /\ call.period >= 1 /\ Len(call.data) >= call.period) =>
        LET steps == RsiSteps(call.data, call.period)
        IN  \A j \in 1..Len(steps) :
                ret.value[call.period + j] =
                    IF FIsZero(steps[j].avg_loss) THEN Hundred
                    ELSE FSub(Hundred,
                              FDiv(Hundred,
                                   FAdd(One, FDiv(steps[j].avg_gain, steps[j].avg_loss))))

\* the symbol reaching the market classification ends with 'L', is longer than
\* 3 and is not in US_EXCLUSIONS
DropsTrailingL(ticker) ==
    /\ ReachesClassification(ticker)
    /\ EndsWith(StripArtifacts(Clean(ticker)), "L")
    /\ Len(StripArtifacts(Clean(ticker))) > 3
    /\ StripArtifacts(Clean(ticker)) \notin us_exclusions

\* C7: when the symbol reaching the market classification ends with 'L', has
\* length > 3 and is not in US_EXCLUSIONS, the output is that symbol without
\* its last character followed by `.L`, once.
C7_TrailingLDroppedThenSuffixedOnce ==
    (Returned("normalize_ticker") /\ DropsTrailingL(call.ticker)) =>
        ret.value = DropLast(StripArtifacts(Clean(call.ticker)), 1) \o ".L"

\* a call returned whose symbol had its 'L' dropped and is leveraged after the drop
C7_Witness ==
    /\ Returned("normalize_ticker")
    /\ DropsTrailingL(call.ticker)
    /\ is_leveraged(DropLast(StripArtifacts(Clean(call.ticker)), 1))
    /\ EndsWith(ret.value, ".L")

\* C8: for every data sequence and every period >= 1 the middle band of
\* calculate_bbands equals calculate_sma(data, period) at every index.
C8_BbandsMiddleIsSma ==
    (Returned("calculate_bbands") /\ call.period >= 1) =>
        ret.value[2] = calculate_sma(call.data, call.period).value

\* C9: for all fast, slow, signal >= 1, macd_line[i] is
\* calculate_ema(data, fast)[i] - calculate_ema(data, slow)[i] at every index
\* and signal_line is calculate_ema(macd_line, signal).
C9_MacdIsBuiltFromCalculateEma ==
    (Returned("calculate_macd") /\ 0 \notin CallPeriods) =>
        \A profile \in Profiles :
            LET ema_fast == calculate_ema(call.data, call.fast, profile).value
                ema_slow == calculate_ema(call.data, call.slow, profile).value
            IN  /\ ret.value[1] =
                       [i \in 1..Len(call.data) |-> FSub(ema_fast[i], ema_slow[i])]
                /\ ret.value[2] = calculate_ema(ret.value[1], call.signal, profile).value

\* the outcome of the call's function on other data, same periods
SameCallOn(data) ==
    CASE call.fn = "calculate_sma" -> calculate_sma(data, call.period)
      [] call.fn = "calculate_rsi" -> calculate_rsi(data, call.period)
      [] call.fn = "calculate_ema" -> calculate_ema(data, call.period, "release")
      [] call.fn = "calculate_macd" ->
            calculate_macd(data, call.fast, call.slow, call.signal, "release")
      [] call.fn = "calculate_bbands" ->
            calculate_bbands(data, call.period, call.std_dev, "release")

\* the output sequences in the order returned
OutputList(fn, outcome) ==
    IF fn \in {"calculate_macd", "calculate_bbands"} THEN outcome.value
    ELSE <<outcome.value>>

\* C10: no indicator looks ahead: for period >= 1, the value at index i of every
\* output is the same for two price sequences that agree on indices 0..i, so
\* the outputs on a prefix of the data are those on the data, index by index.
C10_NoLookahead ==
    (IsIndicatorCall /\ ret.kind # "Pending" /\ 0 \notin CallPeriods) =>
        \A n \in 0..Len(call.data) :
            LET on_prefix == OutputList(call.fn, SameCallOn(SubSeq(call.data, 1, n)))
                on_data == OutputList(call.fn, ret)
            IN  \A j \in 1..Len(on_data) : \A i \in 1..n :
                    on_prefix[j][i] = on_data[j][i]

=============================================================================
